---------------------------- MODULE Spec2Model ----------------------------
(***************************************************************************)
(* Profile Port Watcher (autoprofile.py): the foreground-window watcher    *)
(* loop, its resolution cache, the four-slot profile table, the GUI        *)
(* handlers that start/stop the watcher and edit the table, and the        *)
(* fire-and-forget notifier.                                               *)
(*                                                                         *)
(* Threads: the Tk main loop (one handler at a time, `gui`), the watcher   *)
(* threads created by start_watcher (`thr`), and one short-lived thread    *)
(* per POST (`posts`).  CPython switches threads between bytecodes, so an  *)
(* attribute read or write is one step and nothing larger is atomic.       *)
(***************************************************************************)
EXTENDS Integers, Sequences, FiniteSets, TLC

(* ------------------------------ bounds --------------------------------- *)
\* window handles the OS hands out are 1..MaxHwnd
MaxHwnd == 2
\* threads start_watcher may create in one behaviour
MaxStarts == 2
\* slots the user edits while the model runs are 1..MaxEditSlot
MaxEditSlot == 2
\* POST threads that may be in flight at once
MaxInFlight == 1
\* notifications counted after the stop signal
MaxAfterStop == 2
\* iterations of one run whose identities the scenario history records
RunTicks == 5

(* --------------------------- program constants ------------------------- *)
\* range(1, 5): the four profile slots
NumProfiles == 4
Slots == 1..NumProfiles
\* faulty variant: slot i sends "<i>s"
PortsFromOne == [i \in 1..4 |-> CASE i = 1 -> "1s" [] i = 2 -> "2s"
                                   [] i = 3 -> "3s" [] OTHER -> "4s"]
\* line 49
PROFILE_PORTS == [i \in Slots |-> CASE i = 1 -> "2s" [] i = 2 -> "3s"
                                    [] i = 3 -> "4s" [] OTHER -> "5s"]
\* faulty variant: the fallback is a code of its own
FallbackZero == "0s"
\* line 50
FALLBACK_PORT == "1s"
\* Python's None where a port string is expected (last_sent, selected_port)
None == "None"
\* a null window handle; GetForegroundWindow raising gives None, equally falsy
NoHwnd == 0

(* ------------------------ executable names and paths ------------------- *)
\* A string is the sequence of its character codes; None and "" (both falsy,
\* and assign() maps a falsy name to None) are the empty sequence.  A path is
\* the sequence of its components.
NoName == <<>>
Truthy(s) == s # <<>>

\* "game.exe", "Game.exe", "editor.exe", "unknown.exe"
game_exe == <<103, 97, 109, 101, 46, 101, 120, 101>>
Game_exe == <<71, 97, 109, 101, 46, 101, 120, 101>>
editor_exe == <<101, 100, 105, 116, 111, 114, 46, 101, 120, 101>>
unknown_exe == <<117, 110, 107, 110, 111, 119, 110, 46, 101, 120, 101>>
\* "C:\Games\Game.exe", "C:\Tools\editor.exe", "C:\Other\unknown.exe"
GamePath == << <<67, 58>>, <<71, 97, 109, 101, 115>>, Game_exe >>
EditorPath == << <<67, 58>>, <<84, 111, 111, 108, 115>>, editor_exe >>
UnknownPath == << <<67, 58>>, <<79, 116, 104, 101, 114>>, unknown_exe >>

\* str.lower() on ASCII
LowerChar(c) == IF c \in 65..90 THEN c + 32 ELSE c
Lower(s) == [i \in 1..Len(s) |-> LowerChar(s[i])]
\* os.path.basename
Basename(p) == IF Len(p) = 0 THEN NoName ELSE p[Len(p)]


(* ------------------------------- state --------------------------------- *)
VARIABLES
    \* self.profiles: slot -> [exe_name, exe_path] (ProfileModel's two fields
    \* the watcher reads; the icons are display only)
    profiles,
    \* self.watcher_thread: id of the Thread object last created, 0 for None
    watcher_thread,
    \* self.watcher_stop_event
    watcher_stop_event,
    \* self._last_hwnd, self._last_fg_exe: the resolution cache, kept on self
    last_hwnd,
    last_fg_exe,
    \* start_btn / stop_btn state ("normal" | "disabled")
    start_btn,
    stop_btn,
    \* the Tk main loop's position inside the handler it is running
    gui,
    \* one record per Thread object running _watcher_loop: its position and
    \* the loop's local variables
    thr,
    \* the POST threads send_port_async has started and that have not ended
    posts,
    \* self.queue: the status events put and not yet taken by _process_queue
    queue,
    \* the text of self.status_label
    status_label,
    \* the contents of the config file
    saved,
    \* observation only, never read by the program: per watcher thread, the
    \* code its last completed tick computed, whether an iteration raised
    \* since, whether the table was left alone since its match began
    \* (stable) and from the poll of its last completed tick to that match
    \* (prev_stable), whether the identity it polled is the one of its last
    \* completed tick (same_fg), whether a POST of the code it sent last has
    \* failed, the code the run before had sent last, the handle it failed
    \* to resolve and has sampled ever since (fail_hwnd) and whether its
    \* iteration sampled that handle again (kept_failed)
    obs,
    \* observation only: what the last step of a watcher thread, of
    \* start_watcher, of stop_watcher, of a handler that saved the table or
    \* of a failing POST did
    ev,
    \* observation only: the history of one run (written under SpecRun)
    hist

vars == <<profiles, watcher_thread, watcher_stop_event, last_hwnd, last_fg_exe,
          start_btn, stop_btn, gui, thr, posts, queue, status_label, saved,
          obs, ev, hist>>

Threads == 1..MaxStarts
Hwnds == 1..MaxHwnd
\* the value of the loop's hwnd before its first iteration binds it
NoPrev == MaxHwnd + 1

(* --------------------------- ProfileModel ------------------------------ *)
EmptyProfile == [exe_name |-> NoName, exe_path |-> NoName]

\* ProfileModel.is_assigned
is_assigned(pm) == Truthy(pm.exe_name) /\ Truthy(pm.exe_path)

\* ProfileModel.assign, both field writes
AssignedProfile(exe_name, exe_path) ==
    [exe_name |-> IF Truthy(exe_name) THEN Lower(exe_name) ELSE NoName,
     exe_path |-> exe_path]

\* ProfileModel.from_dict: d is the slot's dict of the config file; an absent
\* key or a null value is NoName
from_dict(d) ==
    IF Truthy(d.exe_path) THEN AssignedProfile(d.exe_name, d.exe_path)
    ELSE EmptyProfile

\* load_config + _load_profiles_from_config: the profiles the constructor
\* ends with for config file contents `data` (data.present = FALSE: the file
\* is missing or unreadable, load_config returns {})
LoadProfiles(data) ==
    IF ~data.present THEN [i \in Slots |-> EmptyProfile]
    ELSE [i \in Slots |-> from_dict(data.profiles[i])]

\* config files the model starts from: none, one a user edited by hand
\* (slot 2 holds Game.exe with its name in mixed case), and one the program
\* saved with game.exe in slot 1 and editor.exe in slot 2
NoConfig == [present |-> FALSE, profiles |-> [i \in Slots |-> EmptyProfile]]
GameConfig ==
    [present |-> TRUE,
     profiles |-> [i \in Slots |-> IF i = 2
                                   THEN [exe_name |-> Game_exe, exe_path |-> GamePath]
                                   ELSE EmptyProfile]]
SavedConfig ==
    [present |-> TRUE,
     profiles |-> [i \in Slots |->
                     CASE i = 1 -> [exe_name |-> game_exe, exe_path |-> GamePath]
                       [] i = 2 -> [exe_name |-> editor_exe, exe_path |-> EditorPath]
                       [] OTHER -> EmptyProfile]]
Configs == {NoConfig, GameConfig, SavedConfig}
\* a file that fills the two last slots
WideConfig ==
    [present |-> TRUE,
     profiles |-> [i \in Slots |->
                     CASE i = 3 -> [exe_name |-> game_exe, exe_path |-> GamePath]
                       [] i = 4 -> [exe_name |-> editor_exe, exe_path |-> EditorPath]
                       [] OTHER -> EmptyProfile]]

\* line 276: the language the constructor sets before the load
DefaultLanguage == "en"

\* a config file as json.load meets it.  json: the file does not parse
\* ("unparseable"); it holds a value that is false in a test (null, 0, "",
\* [], {}: "falsy"); a value that is true in a test and no object (a
\* non-empty array or string, a number, true: "array"); an object whose
\* "profiles" is no object (null, an array, a number: "profiles_null"); an
\* object with a "profiles" object or none ("object").  language: the
\* object's "language", "absent" when it has none.
RawFile(data, json, language) ==
    [present |-> data.present, profiles |-> data.profiles, json |-> json,
     language |-> language]

\* a file that is there and holds no slot
Shaped(json, language) ==
    RawFile([present |-> TRUE, profiles |-> [i \in Slots |-> EmptyProfile]],
            json, language)

\* the files the constructor may find: none; the three of Configs, saved
\* in English, in Turkish or without a language; and one of every other
\* shape
RawFiles ==
    {RawFile(NoConfig, "object", "absent"),
     RawFile(GameConfig, "object", "absent"),
     RawFile(SavedConfig, "object", "tr"),
     RawFile(SavedConfig, "object", "en"),
     Shaped("unparseable", "absent"),
     Shaped("falsy", "absent"),
     Shaped("array", "absent"),
     Shaped("profiles_null", "en"),
     Shaped("profiles_null", "tr"),
     Shaped("object", "tr")}

\* lines 146-153, load_config: TRUE when it returns {} because the file is
\* missing or json.load raised
LoadsEmpty(file) == ~file.present \/ file.json = "unparseable"

\* lines 655-668, _load_profiles_from_config: the exception that leaves it
\* ("none": it returns), self.language and self.profiles as it leaves them.
\* `if not data: return` passes every value that is true in a test, and
\* data.get (line 660) and p.get (line 663) are outside the try of line 665
LoadFromConfig(file) ==
    LET defaults == [i \in Slots |-> EmptyProfile]
        language == IF file.language = "absent" THEN DefaultLanguage
                    ELSE file.language
    IN  CASE LoadsEmpty(file) \/ file.json = "falsy" ->
               [err |-> "none", language |-> DefaultLanguage, profiles |-> defaults]
          [] file.json = "array" ->
               [err |-> "AttributeError", language |-> DefaultLanguage,
                profiles |-> defaults]
          [] file.json = "profiles_null" ->
               [err |-> "AttributeError", language |-> language,
                profiles |-> defaults]
          [] OTHER ->
               [err |-> "none", language |-> language,
                profiles |-> LoadProfiles(file)]

(* ---------------------------- status texts ----------------------------- *)
\* self.t(key).format(arg): the text of LOCALES' entry `key` in the current
\* language, with arg in the place of "{}" (None: the entry has no "{}")
StatusText(key, arg) == [key |-> key, arg |-> arg]
\* lines 391, 559
StatusStopped == StatusText("status_stopped", None)
\* line 549
StatusRunning == StatusText("status_running", None)
\* lines 630, 639
StatusLastSent(port) == StatusText("last_sent", port)

(* ------------------------------ threads -------------------------------- *)
\* a Thread object start_watcher has not created yet / whose loop returned
\* (hwnd is unbound until the first iteration assigns it: NoPrev)
NewThread ==
    [pc |-> "new", last_sent |-> None, hwnd |-> NoPrev, fg_exe |-> NoName,
     idx |-> 1, selected_port |-> None, rd_name |-> NoName]

NewObs ==
    [tick_code |-> None, err |-> FALSE, stable |-> TRUE, failed |-> FALSE,
     prev_sent |-> None, prev_stable |-> FALSE, same_fg |-> FALSE,
     fail_hwnd |-> NoHwnd, kept_failed |-> FALSE, hit |-> FALSE,
     stopped |-> FALSE, sent_after |-> 0]

\* the events ev records
NoEvent ==
    [kind |-> "none", t |-> 0, prev_hwnd |-> NoPrev, prev_fg |-> NoName,
     resolved |-> FALSE, first |-> FALSE, same |-> FALSE, disp |-> FALSE,
     after_fail |-> FALSE, touched |-> FALSE, name |-> NoName,
     path |-> NoName, res_failed |-> FALSE, pub |-> <<>>, same_fg |-> FALSE,
     calm |-> FALSE, noop |-> FALSE, idx |-> 0, ok |-> FALSE,
     same_id |-> FALSE, kept |-> FALSE, err |-> "none", lang |-> "none",
     hit |-> FALSE]
\* thread t sampled a handle; its previous iteration had sampled prev
\* (NoPrev: there was none) and got identity fg; the resolver was or was not
\* invoked
PollEvent(t, prev, fg, resolved) ==
    [NoEvent EXCEPT !.kind = "poll", !.t = t, !.prev_hwnd = prev,
                    !.prev_fg = fg, !.resolved = resolved]
\* thread t completed a tick: its first, or one computing the same code as
\* the tick before, possibly after a POST of that code failed; it dispatched
\* or not
TickEvent(t, first, same, after_fail, disp) ==
    [NoEvent EXCEPT !.kind = "tick", !.t = t, !.first = first, !.same = same,
                    !.after_fail = after_fail, !.disp = disp]
\* thread t's is_assigned() has read both fields of a slot
ReadEvent(t, name, path) ==
    [NoEvent EXCEPT !.kind = "read", !.t = t, !.name = name, !.path = path]
\* thread t's loop returned
ExitEvent(t) == [NoEvent EXCEPT !.kind = "exit", !.t = t]
\* a POST failed; the step did or did not change a watcher thread's state
FailEvent(touched) == [NoEvent EXCEPT !.kind = "postfail", !.touched = touched]

\* start_watcher returned
StartEvent == [NoEvent EXCEPT !.kind = "start"]
\* stop_watcher returned at line 556 (noop) or reached its join; the step
\* did or did not change the program's state
StopEvent(noop, touched) ==
    [NoEvent EXCEPT !.kind = "stop", !.noop = noop, !.touched = touched]
\* a handler that set slot idx to the fields name and path has returned,
\* its save_config having written the file or not
SaveEvent(idx, name, path, ok) ==
    [NoEvent EXCEPT !.kind = "save", !.idx = idx, !.name = name,
                    !.path = path, !.ok = ok]
\* the same, the slot having held before the call what the call set it to
\* (same_id) and the table being after the call as it was before (kept)
EditEvent(idx, name, path, ok, same_id, kept) ==
    [SaveEvent(idx, name, path, ok) EXCEPT !.same_id = same_id, !.kept = kept]

\* the constructor's load of the config file has ended, by the exception
\* err or by returning ("none"), with self.language lang
LoadEvent(err, lang) == [NoEvent EXCEPT !.kind = "load", !.err = err, !.lang = lang]

\* _shutdown set the stop event
ShutdownEvent == [NoEvent EXCEPT !.kind = "shutdown"]

\* a handler called for slot idx has ended without a write: by the exception
\* err, or by returning ("none"); the step did or did not change the table
\* or the file
NoEditEvent(idx, err, touched) ==
    [NoEvent EXCEPT !.kind = "noedit", !.idx = idx, !.err = err,
                    !.touched = touched]

\* Thread.is_alive
is_alive(t) == t # 0 /\ thr[t].pc \notin {"new", "done"}

\* the Tk main loop between two handlers (was: observation only, the table
\* as the handler in progress found it)
GuiIdle ==
    [pc |-> "idle", idx |-> 1, exe_name |-> NoName, exe_path |-> NoName,
     was |-> [i \in Slots |-> EmptyProfile]]

\* ProfilePortWatcherApp.__init__, the config file being one of configs
InitFrom(configs) ==
    /\ \E data \in configs : saved = data /\ profiles = LoadProfiles(data)
    /\ watcher_thread = 0
    /\ watcher_stop_event = FALSE
    /\ last_hwnd = NoHwnd
    /\ last_fg_exe = NoName
    /\ start_btn = "normal"
    /\ stop_btn = "disabled"
    /\ gui = GuiIdle
    /\ thr = [t \in Threads |-> NewThread]
    /\ posts = <<>>
    /\ queue = <<>>
    /\ status_label = StatusStopped
    /\ obs = [t \in Threads |-> NewObs]
    /\ ev = NoEvent
    /\ hist = [ids |-> <<>>, sent |-> <<>>, pub |-> <<>>]

Init == InitFrom(Configs)

\* main() at line 869, before the constructor: the file is one of RawFiles
\* and nothing of the application exists; the table is line 277's
InitLoad ==
    /\ saved \in RawFiles
    /\ profiles = [i \in Slots |-> EmptyProfile]
    /\ watcher_thread = 0
    /\ watcher_stop_event = FALSE
    /\ last_hwnd = NoHwnd
    /\ last_fg_exe = NoName
    /\ start_btn = "normal"
    /\ stop_btn = "disabled"
    /\ gui = [GuiIdle EXCEPT !.pc = "init"]
    /\ thr = [t \in Threads |-> NewThread]
    /\ posts = <<>>
    /\ queue = <<>>
    /\ status_label = StatusStopped
    /\ obs = [t \in Threads |-> NewObs]
    /\ ev = NoEvent
    /\ hist = [ids |-> <<>>, sent |-> <<>>, pub |-> <<>>]

\* ProfilePortWatcherApp.__init__ (lines 270-307): the load of line 278,
\* then the window; an exception of the load leaves the constructor and
\* main(), and the process ends before mainloop()
Construct ==
    /\ gui.pc = "init"
    /\ profiles' = LoadFromConfig(saved).profiles
    /\ gui' = [GuiIdle EXCEPT !.pc = IF LoadFromConfig(saved).err = "none"
                                     THEN "idle" ELSE "crashed"]
    /\ ev' = LoadEvent(LoadFromConfig(saved).err, LoadFromConfig(saved).language)
    /\ UNCHANGED <<watcher_thread, watcher_stop_event, last_hwnd, last_fg_exe,
                   start_btn, stop_btn, thr, posts, obs>>
    /\ UNCHANGED <<queue, status_label, saved>>

(* ------------------- the watcher loop, one thread t -------------------- *)
\* executables a foreground window may belong to
FgPaths == {GamePath, EditorPath, UnknownPath}
\* what win32process / psutil give for a handle: pid 0 (line 603),
\* AccessDenied or NoSuchProcess from proc.exe() (line 600), any other
\* exception (line 606), or the executable's path
Outcomes(paths) ==
    {[kind |-> k, exe_path |-> NoName] : k \in {"nopid", "denied", "gone", "error"}}
    \cup {[kind |-> "exe", exe_path |-> p] : p \in paths}

\* lines 593-608: the identity the resolver yields for outcome o
ResolvedName(o) ==
    IF o.kind = "exe" THEN Lower(Basename(o.exe_path)) ELSE NoName

\* faulty variant: no cache, every non-null handle is resolved
CacheHitNever(h, cached) == FALSE

\* line 589: the cache is used when the handle is the cached one
CacheHit(h, cached) == h = cached

\* faulty variant: no fallback, an unmatched iteration computes no code
ComputedCodeNoFallback(sel) == sel

\* lines 623 and 633: the code this iteration computed
ComputedCode(sel) == IF sel # None THEN sel ELSE FALLBACK_PORT

\* faulty variant: no debounce, every tick sends
NeedSendAlways(code, sent) == TRUE

\* lines 624 and 634: a notification is sent when the code is not last_sent
NeedSend(code, sent) == code # sent

\* faulty variant: the slots are visited from the last to the first
SlotOrderReversed == [k \in 1..NumProfiles |-> NumProfiles + 1 - k]

\* line 618: the order self.profiles.items() yields the slots in (a dict
\* keeps insertion order; line 277 inserts 1, 2, 3, 4)
SlotOrder == [k \in 1..NumProfiles |-> k]
FirstSlot == SlotOrder[1]
\* the slot visited after slot i (0: the loop is over)
NextSlot(i) ==
    LET k == CHOOSE j \in 1..NumProfiles : SlotOrder[j] = i IN
    IF k < NumProfiles THEN SlotOrder[k + 1] ELSE 0

\* the loop moves on from slot i without a match
SkipSlot(r, i) ==
    IF NextSlot(i) = 0
    THEN [r EXCEPT !.pc = "send", !.rd_name = NoName]
    ELSE [r EXCEPT !.pc = "is_name", !.idx = NextSlot(i), !.rd_name = NoName]

\* faulty variant: the loop never looks at the stop event
StopSeenNever(e) == FALSE

\* line 573: what the loop test reads of the stop event e
StopSeen(e) == e

\* faulty variant: the loop joins the POST threads it started before it
\* goes on
SleepOverWhenPosted(t, q) == \A i \in 1..Len(q) : q[i].by # t

\* lines 143 and 644: start() returns as soon as the POST thread runs and
\* nothing joins it, so the sleep ends and the loop goes on whatever the
\* POST threads in q do
SleepOver(t, q) == TRUE

\* line 573: while not self.watcher_stop_event.is_set()
LoopTest(t) ==
    /\ thr[t].pc = "test"
    /\ SleepOver(t, posts)
    /\ IF StopSeen(watcher_stop_event)
       THEN /\ thr' = [thr EXCEPT ![t] =
                         [NewThread EXCEPT !.pc = "done", !.last_sent = thr[t].last_sent]]
            /\ obs' = [obs EXCEPT ![t] = NewObs]
            /\ ev' = ExitEvent(t)
       ELSE /\ thr' = [thr EXCEPT ![t] = [@ EXCEPT !.pc = "poll"]]
            /\ ev' = NoEvent
            /\ UNCHANGED obs
    /\ UNCHANGED <<profiles, watcher_thread, watcher_stop_event, last_hwnd,
                   last_fg_exe, start_btn, stop_btn, gui, posts>>
    /\ UNCHANGED <<queue, status_label, saved>>

\* faulty variant: the match is kept with the identity, and an iteration
\* that finds the application of the iteration before sends its code again
PolledKeepsMatch(r, h, fg) ==
    IF r.hwnd # NoPrev /\ fg = r.fg_exe
    THEN [r EXCEPT !.hwnd = h, !.pc = "send"]
    ELSE [r EXCEPT !.hwnd = h, !.fg_exe = fg, !.selected_port = None,
                   !.idx = FirstSlot,
                   !.pc = IF Truthy(fg) THEN "is_name" ELSE "send"]

\* the loop's locals after lines 576-617 sampled handle h and got identity
\* fg: the match starts over at every iteration
Polled(r, h, fg) ==
    [r EXCEPT !.hwnd = h, !.fg_exe = fg, !.selected_port = None,
              !.idx = FirstSlot,
              !.pc = IF Truthy(fg) THEN "is_name" ELSE "send"]

\* faulty variant: a failed resolution is not cached, the next iteration
\* tries again
MissCacheRetry(h, o) ==
    IF o.kind = "exe" THEN [hwnd |-> h, fg_exe |-> ResolvedName(o)]
    ELSE [hwnd |-> NoHwnd, fg_exe |-> NoName]

\* lines 591-608: the cache after a miss on handle h that met outcome o
MissCache(h, o) == [hwnd |-> h, fg_exe |-> ResolvedName(o)]

\* faulty variant: an iteration without a window leaves the cache alone
CacheKeptAfterNull(cache) == cache

\* lines 611-614: the cache after an iteration that saw no window
CacheAfterNull(cache) == [hwnd |-> NoHwnd, fg_exe |-> NoName]

\* whether identity fg is the one of every iteration of thread t since its
\* last completed tick, that tick included
SameFg(t, fg) ==
    /\ obs[t].tick_code # None
    /\ fg = thr[t].fg_exe
    /\ obs[t].err => obs[t].same_fg

\* whether handle h is one whose resolution failed at an earlier iteration
\* of thread t and that every iteration since has sampled
KeptFailed(t, h) == h # NoHwnd /\ h = obs[t].fail_hwnd

\* the handle whose resolution by thread t failed and that every iteration
\* since has sampled (NoHwnd: there is none), after an iteration that
\* sampled h and did or did not fail to resolve it
FailHwnd(t, h, failed) ==
    IF failed \/ KeptFailed(t, h) THEN h ELSE NoHwnd

\* lines 576-617: sample the foreground handle h (None when there is no
\* window or GetForegroundWindow raises, line 579) and get the identity
\* from the cache or from the resolver; paths: the executables in the
\* foreground
Poll(t, paths) ==
    /\ thr[t].pc = "poll"
    /\ \E h \in {NoHwnd} \cup Hwnds :
        \/ /\ h # NoHwnd
           /\ ~CacheHit(h, last_hwnd)
           /\ \E o \in Outcomes(paths) :
               /\ last_hwnd' = MissCache(h, o).hwnd
               /\ last_fg_exe' = MissCache(h, o).fg_exe
               /\ thr' = [thr EXCEPT ![t] = Polled(@, h, ResolvedName(o))]
               /\ ev' = [PollEvent(t, thr[t].hwnd, thr[t].fg_exe, TRUE)
                           EXCEPT !.res_failed = (o.kind # "exe")]
        \/ /\ h # NoHwnd
           /\ CacheHit(h, last_hwnd)
           /\ UNCHANGED <<last_hwnd, last_fg_exe>>
           /\ thr' = [thr EXCEPT ![t] = Polled(@, h, last_fg_exe)]
           /\ ev' = PollEvent(t, thr[t].hwnd, thr[t].fg_exe, FALSE)
        \/ /\ h = NoHwnd
           /\ last_hwnd' = CacheAfterNull([hwnd |-> last_hwnd, fg_exe |-> last_fg_exe]).hwnd
           /\ last_fg_exe' = CacheAfterNull([hwnd |-> last_hwnd, fg_exe |-> last_fg_exe]).fg_exe
           /\ thr' = [thr EXCEPT ![t] = Polled(@, h, NoName)]
           /\ ev' = PollEvent(t, thr[t].hwnd, thr[t].fg_exe, FALSE)
    /\ obs' = [obs EXCEPT ![t] = [@ EXCEPT !.stable = TRUE,
                                           !.same_fg = SameFg(t, thr'[t].fg_exe),
                                           !.fail_hwnd = FailHwnd(t, thr'[t].hwnd, ev'.res_failed),
                                           !.kept_failed = KeptFailed(t, thr'[t].hwnd),
                                           !.hit = thr'[t].hwnd # NoHwnd /\ ~ev'.resolved]]
    /\ UNCHANGED <<profiles, watcher_thread, watcher_stop_event, start_btn,
                   stop_btn, gui, posts>>
    /\ UNCHANGED <<queue, status_label, saved>>

\* line 619, is_assigned(): read pm.exe_name (line 232, first operand)
ReadName(t) ==
    /\ thr[t].pc = "is_name"
    /\ LET v == profiles[thr[t].idx].exe_name IN
       thr' = [thr EXCEPT ![t] =
                 IF Truthy(v) THEN [@ EXCEPT !.pc = "is_path", !.rd_name = v]
                 ELSE SkipSlot(@, thr[t].idx)]
    /\ ev' = NoEvent
    /\ UNCHANGED <<profiles, watcher_thread, watcher_stop_event, last_hwnd,
                   last_fg_exe, start_btn, stop_btn, gui, posts, obs>>
    /\ UNCHANGED <<queue, status_label, saved>>

\* line 619, is_assigned(): read pm.exe_path (line 232, second operand)
ReadPath(t) ==
    /\ thr[t].pc = "is_path"
    /\ LET v == profiles[thr[t].idx].exe_path IN
       /\ thr' = [thr EXCEPT ![t] =
                    IF Truthy(v) THEN [@ EXCEPT !.pc = "cmp", !.rd_name = NoName]
                    ELSE SkipSlot(@, thr[t].idx)]
       /\ ev' = ReadEvent(t, thr[t].rd_name, v)
    /\ UNCHANGED <<profiles, watcher_thread, watcher_stop_event, last_hwnd,
                   last_fg_exe, start_btn, stop_btn, gui, posts, obs>>
    /\ UNCHANGED <<queue, status_label, saved>>

\* lines 619-621: read pm.exe_name again and compare it with fg_exe
Compare(t) ==
    /\ thr[t].pc = "cmp"
    /\ thr' = [thr EXCEPT ![t] =
                 IF profiles[thr[t].idx].exe_name = thr[t].fg_exe
                 THEN [@ EXCEPT !.pc = "send",
                                !.selected_port = PROFILE_PORTS[thr[t].idx]]
                 ELSE SkipSlot(@, thr[t].idx)]
    /\ ev' = NoEvent
    /\ UNCHANGED <<profiles, watcher_thread, watcher_stop_event, last_hwnd,
                   last_fg_exe, start_btn, stop_btn, gui, posts, obs>>
    /\ UNCHANGED <<queue, status_label, saved>>

\* line 143: the POST threads in flight once one more, p, has started.
\* Their number has no bound in the program; the model keeps MaxInFlight of
\* them: when that many are in flight the oldest has been delivered by the
\* time the next starts.
Started(q, p) ==
    IF Len(q) < MaxInFlight THEN Append(q, p) ELSE Append(Tail(q), p)

\* faulty variant: a status event at every tick
PublishedAlways(code, dispatched) == <<StatusLastSent(code)>>

\* lines 629-632 and 638-641: the status events an iteration puts that
\* computed `code` and dispatched it or not
Published(code, dispatched) ==
    IF dispatched THEN <<StatusLastSent(code)>> ELSE <<>>

\* queue.put of each of items, in order.  _process_queue writes every
\* pending event over the one before it within one callback, so that only
\* the newest can be seen: the model keeps that one.
Put(q, items) == IF items = <<>> THEN q ELSE <<items[Len(items)]>>

\* lines 623-644: send the code if it is not last_sent, then sleep
\* CHECK_INTERVAL.  send_port_async starts the POST thread and returns.
Send(t) ==
    /\ thr[t].pc = "send"
    /\ LET code == ComputedCode(thr[t].selected_port)
           first == obs[t].tick_code = None
           same == obs[t].tick_code = code
           disp == NeedSend(code, thr[t].last_sent)
           pub == Published(code, disp)
       IN
       /\ posts' = IF disp THEN Started(posts, [port |-> code, by |-> t]) ELSE posts
       /\ queue' = Put(queue, pub)
       /\ thr' = [thr EXCEPT ![t] = [@ EXCEPT !.pc = "test",
                                              !.last_sent = IF disp THEN code ELSE @]]
       /\ ev' = [TickEvent(t, first, same, obs[t].failed, disp)
                   EXCEPT !.pub = pub, !.same_fg = obs[t].same_fg,
                          !.hit = obs[t].hit,
                          !.calm = obs[t].stable /\ obs[t].prev_stable]
       /\ obs' = [obs EXCEPT ![t] = [@ EXCEPT !.tick_code = code, !.err = FALSE,
                                              !.failed = IF disp THEN FALSE ELSE @,
                                              !.prev_stable = obs[t].stable,
                                              !.same_fg = FALSE, !.hit = FALSE,
                                              !.sent_after =
                                                  IF disp /\ obs[t].stopped /\ @ < MaxAfterStop
                                                  THEN @ + 1 ELSE @]]
    /\ UNCHANGED <<profiles, watcher_thread, watcher_stop_event, last_hwnd,
                   last_fg_exe, start_btn, stop_btn, gui>>
    /\ UNCHANGED <<status_label, saved>>

\* lines 626/636 raising: threading.Thread.start() fails (line 143), so no
\* POST thread exists and last_sent is not assigned; control passes to the
\* handler of line 646
SendRaises(t) ==
    /\ thr[t].pc = "send"
    /\ NeedSend(ComputedCode(thr[t].selected_port), thr[t].last_sent)
    /\ thr' = [thr EXCEPT ![t] = [@ EXCEPT !.pc = "except"]]
    /\ obs' = [obs EXCEPT ![t] = [@ EXCEPT !.err = TRUE]]
    /\ ev' = NoEvent
    /\ UNCHANGED <<profiles, watcher_thread, watcher_stop_event, last_hwnd,
                   last_fg_exe, start_btn, stop_btn, gui, posts>>
    /\ UNCHANGED <<queue, status_label, saved>>

\* faulty variant: no handler, the exception ends the thread
AfterExceptDies(r) == [NewThread EXCEPT !.pc = "done", !.last_sent = r.last_sent]

\* where the handler of lines 646-652 leaves the thread: it logs, sleeps
\* 0.5 s and falls through to the loop test
AfterExcept(r) == [r EXCEPT !.pc = "test"]

\* lines 646-652
IterationError(t) ==
    /\ thr[t].pc = "except"
    /\ thr' = [thr EXCEPT ![t] = AfterExcept(@)]
    /\ ev' = IF thr'[t].pc = "done" THEN ExitEvent(t) ELSE NoEvent
    /\ UNCHANGED <<profiles, watcher_thread, watcher_stop_event, last_hwnd,
                   last_fg_exe, start_btn, stop_btn, gui, posts, obs>>
    /\ UNCHANGED <<queue, status_label, saved>>

(* --------------------------- the notifier ------------------------------ *)
\* a sequence without its i-th element
Without(q, i) == [j \in 1..(Len(q) - 1) |-> IF j < i THEN q[j] ELSE q[j + 1]]

\* lines 137-140: requests.post returned; the thread logs and ends
PostSent(i) ==
    /\ i \in 1..Len(posts)
    /\ posts' = Without(posts, i)
    /\ UNCHANGED ev
    /\ UNCHANGED <<profiles, watcher_thread, watcher_stop_event, last_hwnd,
                   last_fg_exe, start_btn, stop_btn, gui, thr, obs>>
    /\ UNCHANGED <<queue, status_label, saved>>

\* faulty variant: a failed POST makes the watcher forget what it sent, so that the
\* next tick sends again
AfterPostFailedResets(threads) ==
    [t \in DOMAIN threads |-> [threads[t] EXCEPT !.last_sent = None]]

\* what a failed POST leaves of the watcher threads: lines 141-142 only log
AfterPostFailed(threads) == threads

\* lines 141-142: requests.post raised (unreachable endpoint, timeout); the
\* thread logs a warning and ends
PostFailed(i) ==
    /\ i \in 1..Len(posts)
    /\ posts' = Without(posts, i)
    /\ thr' = AfterPostFailed(thr)
    /\ ev' = FailEvent(thr' # thr)
    /\ obs' = [obs EXCEPT ![posts[i].by] =
                 [@ EXCEPT !.failed = @ \/ (is_alive(posts[i].by)
                                             /\ thr[posts[i].by].last_sent = posts[i].port)]]
    /\ UNCHANGED <<profiles, watcher_thread, watcher_stop_event, last_hwnd,
                   last_fg_exe, start_btn, stop_btn, gui>>
    /\ UNCHANGED <<queue, status_label, saved>>

(* ------------------------- the GUI handlers ---------------------------- *)
\* faulty variant: last_sent outlives the run (kept where the cache is kept)
StartedThreadKeepsSent ==
    [NewThread EXCEPT !.pc = "test",
                      !.last_sent = IF watcher_thread = 0 THEN None
                                    ELSE thr[watcher_thread].last_sent]

\* the state a new watcher thread starts its loop in (line 572)
StartedThread == [NewThread EXCEPT !.pc = "test"]

\* line 546 drops the reference to the Thread of the run before, whose
\* loop has returned: its locals are gone
DroppedThread == [NewThread EXCEPT !.pc = "done"]

\* the cache start_watcher leaves: lines 543-552 do not touch it
CacheAfterStart(cache) == cache

\* faulty variant: start_watcher does not look at the thread it has
AlreadyRunningNever == FALSE

\* line 544: the test that makes start_watcher return at line 545
AlreadyRunning == is_alive(watcher_thread)

\* faulty variant: the event is cleared before the thread is looked at
EventClearedAnyway(e) == FALSE

\* line 545: the stop event after a start_watcher that found the thread
\* alive, which returns before the clear() of line 546
EventAfterBusyStart(e) == e

\* lines 543-552, the Start button's command
start_watcher ==
    /\ gui.pc = "idle"
    /\ IF AlreadyRunning
       THEN /\ watcher_stop_event' = EventAfterBusyStart(watcher_stop_event)
            /\ UNCHANGED <<watcher_thread, start_btn, stop_btn,
                           thr, obs, last_hwnd, last_fg_exe, status_label>>
       ELSE /\ watcher_thread < MaxStarts
            /\ watcher_stop_event' = FALSE
            /\ watcher_thread' = watcher_thread + 1
            /\ thr' = [t \in Threads |->
                         IF t = watcher_thread + 1 THEN StartedThread
                         ELSE IF t = watcher_thread /\ ~is_alive(t)
                              THEN DroppedThread
                         ELSE thr[t]]
            /\ obs' = [obs EXCEPT ![watcher_thread + 1] =
                         [NewObs EXCEPT !.prev_sent =
                             IF watcher_thread = 0 THEN None
                             ELSE thr[watcher_thread].last_sent]]
            /\ last_hwnd' = CacheAfterStart([hwnd |-> last_hwnd, fg_exe |-> last_fg_exe]).hwnd
            /\ last_fg_exe' = CacheAfterStart([hwnd |-> last_hwnd, fg_exe |-> last_fg_exe]).fg_exe
            /\ status_label' = StatusRunning
            /\ start_btn' = "disabled"
            /\ stop_btn' = "normal"
    /\ ev' = StartEvent
    /\ UNCHANGED <<profiles, gui, posts>>
    /\ UNCHANGED <<queue, saved>>

\* faulty variant: the event is set before the thread is looked at, as
\* _shutdown does (line 853)
EventSetAnyway(e) == TRUE

\* lines 555-556: the stop event after a stop_watcher that found no thread
\* alive
EventAfterIdleStop(e) == e

\* lines 554-558, the Stop button's command up to the join
stop_watcher ==
    /\ gui.pc = "idle"
    /\ IF ~is_alive(watcher_thread)
       THEN /\ watcher_stop_event' = EventAfterIdleStop(watcher_stop_event)
            /\ UNCHANGED gui
            /\ UNCHANGED obs
       ELSE /\ watcher_stop_event' = TRUE
            /\ gui' = [gui EXCEPT !.pc = "join"]
            /\ obs' = [obs EXCEPT ![watcher_thread].stopped = TRUE]
    /\ UNCHANGED <<profiles, watcher_thread, last_hwnd, last_fg_exe, start_btn,
                   stop_btn, thr, posts>>
    /\ UNCHANGED <<queue, status_label, saved>>
    /\ ev' = StopEvent(~is_alive(watcher_thread),
                       \/ watcher_stop_event' # watcher_stop_event
                       \/ watcher_thread' # watcher_thread
                       \/ last_hwnd' # last_hwnd \/ last_fg_exe' # last_fg_exe
                       \/ profiles' # profiles \/ status_label' # status_label
                       \/ start_btn' # start_btn \/ stop_btn' # stop_btn
                       \/ gui' # gui)

\* lines 558-562: join(timeout=1.0) returns because the thread ended
JoinReturns ==
    /\ gui.pc = "join"
    /\ ~is_alive(watcher_thread)
    /\ gui' = GuiIdle
    /\ status_label' = StatusStopped
    /\ start_btn' = "normal"
    /\ stop_btn' = "disabled"
    /\ UNCHANGED ev
    /\ UNCHANGED <<profiles, watcher_thread, watcher_stop_event, last_hwnd,
                   last_fg_exe, thr, posts, obs>>
    /\ UNCHANGED <<queue, saved>>

\* lines 558-562: join(timeout=1.0) returns because the second elapsed
JoinTimesOut ==
    /\ gui.pc = "join"
    /\ is_alive(watcher_thread)
    /\ gui' = GuiIdle
    /\ status_label' = StatusStopped
    /\ start_btn' = "normal"
    /\ stop_btn' = "disabled"
    /\ UNCHANGED ev
    /\ UNCHANGED <<profiles, watcher_thread, watcher_stop_event, last_hwnd,
                   last_fg_exe, thr, posts, obs>>
    /\ UNCHANGED <<queue, saved>>

\* lines 851-854, _shutdown up to the join: the event is set whatever the
\* thread's state, and the join is entered when the thread is alive
shutdown ==
    /\ gui.pc = "idle"
    /\ watcher_stop_event' = TRUE
    /\ gui' = [gui EXCEPT !.pc = IF is_alive(watcher_thread) THEN "quit_join"
                                 ELSE "quit_save"]
    /\ obs' = [t \in Threads |->
                 IF is_alive(t) THEN [obs[t] EXCEPT !.stopped = TRUE] ELSE obs[t]]
    /\ ev' = ShutdownEvent
    /\ UNCHANGED <<profiles, watcher_thread, last_hwnd, last_fg_exe, start_btn,
                   stop_btn, thr, posts>>
    /\ UNCHANGED <<queue, status_label, saved>>

\* line 855: join(timeout=1.0) returns, the thread ended or the second
\* elapsed
QuitJoin ==
    /\ gui.pc = "quit_join"
    /\ gui' = [gui EXCEPT !.pc = "quit_save"]
    /\ UNCHANGED ev
    /\ UNCHANGED <<profiles, watcher_thread, watcher_stop_event, last_hwnd,
                   last_fg_exe, start_btn, stop_btn, thr, posts, obs>>
    /\ UNCHANGED <<queue, status_label, saved>>

\* the executable the foreground shows while the watcher runs: one
\* application, which a slot of the table matches or not, behind any of the
\* window handles; SpecRun shows every one of FgPaths
RunPaths == {GamePath}

\* the path the user assigns, by file dialog (line 485) or by click (line 519)
AssignPaths == {GamePath}
EditSlots == 1..MaxEditSlot

\* a write to the table ends the stability of every match in progress
Unstable ==
    [t \in Threads |-> [obs[t] EXCEPT !.stable = FALSE, !.prev_stable = FALSE]]

\* assign_by_exe / assign_by_click up to ProfileModel.assign's first write
\* (lines 488-489 or 519-521, then line 235)
AssignName(i, path) ==
    /\ gui.pc = "idle"
    /\ LET exe_name == Lower(Basename(path)) IN
       /\ profiles' = [profiles EXCEPT ![i].exe_name =
                          AssignedProfile(exe_name, path).exe_name]
       /\ gui' = [pc |-> "assign", idx |-> i, exe_name |-> exe_name,
                  exe_path |-> path, was |-> profiles]
    /\ obs' = Unstable
    /\ ev' = NoEvent
    /\ UNCHANGED <<watcher_thread, watcher_stop_event, last_hwnd, last_fg_exe,
                   start_btn, stop_btn, thr, posts>>
    /\ UNCHANGED <<queue, status_label, saved>>

\* ProfileModel.to_dict
to_dict(pm) == [exe_name |-> pm.exe_name, exe_path |-> pm.exe_path]

\* what save_config meets: the file is written; mkdir or open raises and
\* the file is as it was; json.dump raises after open(.., "w") has
\* truncated the file, and what is left does not parse
WriteOutcomes == {"ok", "denied", "torn"}
\* a disk on which every write succeeds
WriteOk == {"ok"}

\* faulty variant: the table is never saved
WrittenNever(file, table, w) == file

\* lines 670-672 and 156-164: the config file after _save_profiles_to_config
\* saved `table` over `file` and met w (a file that does not parse loads as
\* a missing one does, lines 147-153)
Written(file, table, w) ==
    CASE w = "ok" -> [present |-> TRUE, profiles |-> [i \in Slots |-> to_dict(table[i])]]
      [] w = "denied" -> file
      [] OTHER -> NoConfig

\* ProfileModel.assign's second write and the rest of the handler
\* (lines 236-244, 490-492), the save included; writes: what the save may
\* meet
AssignPath(writes) ==
    /\ gui.pc = "assign"
    /\ profiles' = [profiles EXCEPT ![gui.idx].exe_path =
                       AssignedProfile(gui.exe_name, gui.exe_path).exe_path]
    /\ gui' = GuiIdle
    /\ obs' = Unstable
    /\ \E w \in writes :
         /\ saved' = Written(saved, profiles', w)
         /\ ev' = EditEvent(gui.idx, AssignedProfile(gui.exe_name, gui.exe_path).exe_name,
                            gui.exe_path, w = "ok",
                            gui.was[gui.idx] = [exe_name |-> gui.exe_name,
                                                exe_path |-> gui.exe_path],
                            profiles' = gui.was)
    /\ UNCHANGED <<watcher_thread, watcher_stop_event, last_hwnd, last_fg_exe,
                   start_btn, stop_btn, thr, posts>>
    /\ UNCHANGED <<queue, status_label>>

\* faulty variant: clear leaves a placeholder name in the slot
ClearedToPlaceholder == [exe_name |-> unknown_exe, exe_path |-> NoName]

\* lines 247-248: the fields ProfileModel.clear leaves
Cleared == [exe_name |-> NoName, exe_path |-> NoName]

\* clear_profile up to ProfileModel.clear's first write (lines 537, 247)
ClearName(i) ==
    /\ gui.pc = "idle"
    /\ profiles' = [profiles EXCEPT ![i].exe_name = Cleared.exe_name]
    /\ gui' = [GuiIdle EXCEPT !.pc = "clear", !.idx = i, !.was = profiles]
    /\ obs' = Unstable
    /\ ev' = NoEvent
    /\ UNCHANGED <<watcher_thread, watcher_stop_event, last_hwnd, last_fg_exe,
                   start_btn, stop_btn, thr, posts>>
    /\ UNCHANGED <<queue, status_label, saved>>

\* ProfileModel.clear's second write and the rest of the handler
\* (lines 248-250, 538-540), the save included
ClearPath(writes) ==
    /\ gui.pc = "clear"
    /\ profiles' = [profiles EXCEPT ![gui.idx].exe_path = Cleared.exe_path]
    /\ gui' = GuiIdle
    /\ obs' = Unstable
    /\ \E w \in writes :
         /\ saved' = Written(saved, profiles', w)
         /\ ev' = EditEvent(gui.idx, NoName, NoName, w = "ok",
                            gui.was[gui.idx] = EmptyProfile, profiles' = gui.was)
    /\ UNCHANGED <<watcher_thread, watcher_stop_event, last_hwnd, last_fg_exe,
                   start_btn, stop_btn, thr, posts>>
    /\ UNCHANGED <<queue, status_label>>

\* the indices a caller may pass that are no slot: the one below 1 and the
\* one above NumProfiles
BadSlots == {0, NumProfiles + 1}

\* faulty variant: a slot the table lacks is looked up with dict.get, and the
\* handler returns when there is none
LookupOrSkip(table, idx) == "none"

\* lines 489 and 537: self.profiles[idx] on the dict of line 277, which
\* raises KeyError for a key it lacks
Lookup(table, idx) == IF idx \in DOMAIN table THEN "none" ELSE "KeyError"

\* assign_by_exe with a file chosen (lines 485-489) or clear_profile
\* (line 537) for an index the table lacks: the lookup raises before
\* assign, clear, the button's refresh and the save, and the exception leaves
\* the handler
EditNoSlot(i) ==
    /\ gui.pc = "idle"
    /\ i \notin DOMAIN profiles
    /\ UNCHANGED <<profiles, gui, saved, obs>>
    /\ UNCHANGED <<watcher_thread, watcher_stop_event, last_hwnd, last_fg_exe,
                   start_btn, stop_btn, thr, posts>>
    /\ UNCHANGED <<queue, status_label>>
    /\ ev' = NoEditEvent(i, Lookup(profiles, i),
                         profiles' # profiles \/ saved' # saved)

\* lines 856-861, the rest of _shutdown: the table is saved and the window
\* destroyed, which ends mainloop() and main().  A watcher thread still in
\* its loop is a daemon thread: it runs on until its next test of the event
\* unless the interpreter's end cuts it short.
QuitSave(writes) ==
    /\ gui.pc = "quit_save"
    /\ gui' = [gui EXCEPT !.pc = "exited"]
    /\ \E w \in writes : saved' = Written(saved, profiles, w)
    /\ UNCHANGED ev
    /\ UNCHANGED <<profiles, watcher_thread, watcher_stop_event, last_hwnd,
                   last_fg_exe, start_btn, stop_btn, thr, posts, obs>>
    /\ UNCHANGED <<queue, status_label>>

\* lines 675-683: the after() callback takes every pending status event
\* and writes each to the label, so that the label ends as the newest
ProcessQueue ==
    /\ gui.pc = "idle"
    /\ queue # <<>>
    /\ status_label' = queue[Len(queue)]
    /\ queue' = <<>>
    /\ UNCHANGED <<profiles, watcher_thread, watcher_stop_event, last_hwnd,
                   last_fg_exe, start_btn, stop_btn, gui, thr, posts, saved,
                   obs, ev>>

(* --------------------------- specifications ---------------------------- *)
\* one step of watcher thread t in an iteration that does not raise, the
\* foreground showing one of paths
LoopStep(t, paths) ==
    \/ LoopTest(t)
    \/ Poll(t, paths)
    \/ ReadName(t)
    \/ ReadPath(t)
    \/ Compare(t)
    \/ Send(t)

\* one step of watcher thread t, the foreground showing one of paths
WatcherStep(t, paths) ==
    \/ LoopStep(t, paths)
    \/ SendRaises(t)
    \/ IterationError(t)

\* line 394: the Start button, which takes clicks while it is enabled
StartButton == start_btn = "normal" /\ start_watcher

\* line 402: the Stop button, which takes clicks while it is enabled
StopButton == stop_btn = "normal" /\ stop_watcher

\* the Start and Stop buttons
LifecycleStep ==
    \/ StartButton
    \/ StopButton
    \/ JoinReturns
    \/ JoinTimesOut

\* start_watcher and stop_watcher called in any order, whatever the buttons
\* allow
CallStep ==
    \/ start_watcher
    \/ stop_watcher
    \/ JoinReturns
    \/ JoinTimesOut

\* the tray's Exit and on_close_full, once confirmed (lines 845-849, 863-865)
QuitStep ==
    \/ shutdown
    \/ QuitJoin
    \/ QuitSave(WriteOk)

\* the profile buttons' menu; writes: what a save may meet
EditStep(writes) ==
    \/ \E i \in EditSlots, p \in AssignPaths : AssignName(i, p)
    \/ AssignPath(writes)
    \/ \E i \in EditSlots : ClearName(i)
    \/ ClearPath(writes)

NotifierStep == \E i \in 1..MaxInFlight : PostSent(i) \/ PostFailed(i)

\* Spec: the watcher's lifecycle over the table as loaded.  The user
\* starts, stops and restarts the watcher; POSTs complete or fail at any
\* time.  The status events stay queued: the label's refresh is under
\* SpecRun.
Next ==
    \/ (\E t \in Threads : WatcherStep(t, RunPaths)) /\ UNCHANGED hist
    \/ LifecycleStep /\ UNCHANGED hist
    \/ NotifierStep /\ UNCHANGED hist

Spec == Init /\ [][Next]_vars

\* SpecEdit: one run of the watcher with the user editing the table while
\* it runs.  Every POST is delivered and every thread starts: what a
\* failing POST or a raising iteration does is under Spec.  Every save
\* succeeds: what a failing save does is under SpecSave.
NextEdit ==
    \/ (\E t \in Threads : LoopStep(t, RunPaths)) /\ UNCHANGED hist
    \/ StartButton /\ UNCHANGED hist
    \/ EditStep(WriteOk) /\ UNCHANGED hist
    \/ (\E i \in 1..MaxInFlight : PostSent(i)) /\ UNCHANGED hist

SpecEdit == Init /\ [][NextEdit]_vars

\* SpecLive: start_watcher and stop_watcher called in any order, with
\* every watcher thread scheduled; the POSTs stay in flight.  A live
\* thread is a daemon thread of the interpreter: the OS runs it, and the
\* calls of an iteration return (each step of the loop is one of them), so
\* that a step of the thread that stays possible is eventually taken.
NextLive ==
    \/ (\E t \in Threads : WatcherStep(t, RunPaths)) /\ UNCHANGED hist
    \/ CallStep /\ UNCHANGED hist

SpecLive ==
    /\ Init /\ [][NextLive]_vars
    /\ \A t \in Threads : WF_vars(WatcherStep(t, RunPaths) /\ UNCHANGED hist)

\* SpecSave: the user edits the table, every save succeeding or failing,
\* and the handlers are also called for an index that is no slot; the
\* watcher is not running.
NextSave ==
    \/ EditStep(WriteOutcomes) /\ UNCHANGED hist
    \/ (\E i \in BadSlots : EditNoSlot(i)) /\ UNCHANGED hist

SpecSave == Init /\ [][NextSave]_vars

\* SpecQuit: start_watcher, stop_watcher and _shutdown called in any
\* order, the watcher threads running at any speed.
NextQuit ==
    \/ (\E t \in Threads : WatcherStep(t, RunPaths)) /\ UNCHANGED hist
    \/ CallStep /\ UNCHANGED hist
    \/ QuitStep /\ UNCHANGED hist

SpecQuit == Init /\ [][NextQuit]_vars

\* SpecLoad: the application is constructed over a config file of any
\* shape, and the user starts the watcher; nothing writes the file.
NextLoad ==
    \/ Construct /\ UNCHANGED hist
    \/ StartButton /\ UNCHANGED hist
    \/ (\E t \in Threads : LoopStep(t, FgPaths)) /\ UNCHANGED hist
    \/ (\E i \in 1..MaxInFlight : PostSent(i)) /\ UNCHANGED hist

SpecLoad == InitLoad /\ [][NextLoad]_vars

\* SpecRun: one run of RunTicks ticks over the table as loaded, with
\* the identity of every completed tick and every code dispatched recorded.
\* A tick is an iteration that reaches the sleep of line 644; an iteration
\* that raises is not one.  The foreground is driven through the scenario:
\* NotFound, game.exe, game.exe, editor.exe, unknown.exe, then anything.
\* The config file may also be one that fills slots 3 and 4.
ScenarioIds == <<NoName, game_exe, game_exe, editor_exe, unknown_exe>>
OnScenario(ids) ==
    \A k \in 1..Len(ids) : k <= Len(ScenarioIds) => ids[k] = ScenarioIds[k]

Recorded(t) ==
    IF thr[t].pc = "send" /\ thr'[t].pc = "test"
    THEN hist' = [ids |-> Append(hist.ids, thr[t].fg_exe),
                  sent |-> IF thr'[t].last_sent # thr[t].last_sent
                           THEN Append(hist.sent, posts'[Len(posts')].port)
                           ELSE hist.sent,
                  pub |-> hist.pub \o ev'.pub]
    ELSE UNCHANGED hist

NextRun ==
    \/ \E t \in Threads :
         /\ Len(hist.ids) < RunTicks
         /\ WatcherStep(t, FgPaths)
         /\ Recorded(t)
         /\ OnScenario(hist'.ids)
    \/ StartButton /\ UNCHANGED hist
    \/ NotifierStep /\ UNCHANGED hist
    \/ ProcessQueue /\ UNCHANGED hist

SpecRun == InitFrom(Configs \cup {WideConfig}) /\ [][NextRun]_vars

(* ------------------------------- claims -------------------------------- *)
\* slots whose assignment matches identity fg in the table as it stands
MatchingSlots(fg) ==
    {i \in Slots : is_assigned(profiles[i]) /\ profiles[i].exe_name = fg}
Min(S) == CHOOSE m \in S : \A x \in S : m <= x

\* C1: within one run a completed tick dispatches exactly when it is the
\* run's first tick or computed a code other than the tick before it (the
\* first tick of each maximal run of identical codes), and last_sent is then
\* the code the tick computed.
C1_Debounce ==
    ev.kind = "tick" =>
        /\ ev.disp <=> (ev.first \/ ~ev.same)
        /\ thr[ev.t].last_sent = obs[ev.t].tick_code

\* a tick after the first that computed the same code again and sent nothing
C1_Witness ==
    ev.kind = "tick" /\ ~ev.first /\ ev.same /\ ~ev.disp

\* C2: an iteration that follows another of the same run invokes the
\* resolver exactly when its handle is non-null and differs from the handle
\* the preceding iteration sampled; on an equal non-null handle the resolver
\* is not invoked and the identity is the preceding iteration's.
C2_ResolveOnChange ==
    (ev.kind = "poll" /\ ev.prev_hwnd # NoPrev) =>
        LET h == thr[ev.t].hwnd IN
        /\ ev.resolved <=> (h # NoHwnd /\ h # ev.prev_hwnd)
        /\ (h # NoHwnd /\ h = ev.prev_hwnd) => thr[ev.t].fg_exe = ev.prev_fg

\* the same window stayed in the foreground: a hit, with a cached identity
C2_Witness ==
    /\ ev.kind = "poll"
    /\ thr[ev.t].hwnd # NoHwnd
    /\ thr[ev.t].hwnd = ev.prev_hwnd
    /\ ~ev.resolved
    /\ Truthy(thr[ev.t].fg_exe)

\* C3: with game.exe in slot 1 and editor.exe in slot 2, a run whose five
\* ticks resolve to NotFound, game.exe, game.exe, editor.exe, unknown.exe
\* has dispatched 1s, 2s, 3s, 1s, in that order.
ScenarioTable == LoadProfiles(SavedConfig)
C3_Scenario ==
    (profiles = ScenarioTable /\ hist.ids = ScenarioIds)
        => hist.sent = <<"1s", "2s", "3s", "1s">>

C3_Witness ==
    /\ profiles = ScenarioTable
    /\ hist.ids = ScenarioIds
    /\ hist.sent = <<"1s", "2s", "3s", "1s">>

\* C4: the first completed tick of every run dispatches.
C4_FirstTickSends == (ev.kind = "tick" /\ ev.first) => ev.disp

\* the first tick of a restarted run saw no window and sent the fallback,
\* the very code the stopped run had sent last
C4_Witness ==
    /\ ev.kind = "tick" /\ ev.first /\ ev.disp
    /\ ev.t > 1
    /\ thr[ev.t].hwnd = NoHwnd
    /\ thr[ev.t].last_sent = FALLBACK_PORT
    /\ obs[ev.t].prev_sent = FALLBACK_PORT

\* C5 (as claimed): the first iteration of every run invokes the resolver
\* for a non-null handle.
C5_FirstPollResolves ==
    (ev.kind = "poll" /\ ev.prev_hwnd = NoPrev /\ thr[ev.t].hwnd # NoHwnd)
        => ev.resolved

\* C6: a watcher thread returns only from the loop test with the stop event
\* set, and a thread whose iteration raised is still running its loop.
C6_ErrorKeepsLoop ==
    /\ ev.kind = "exit" => watcher_stop_event
    /\ \A t \in Threads : obs[t].err => is_alive(t)

\* after an iteration raised, a later iteration has reached its send step
C6_Witness ==
    \E t \in Threads :
        obs[t].err /\ thr[t].pc = "send" /\ ~watcher_stop_event

\* C7: when two or more slots are assigned the foreground executable, a
\* tick whose match ran on that table selects the lowest of them.
C7_LowestSlot ==
    (/\ ev.kind = "tick"
     /\ obs[ev.t].stable
     /\ Cardinality(MatchingSlots(thr[ev.t].fg_exe)) >= 2)
        => /\ thr[ev.t].selected_port
                = PROFILE_PORTS[Min(MatchingSlots(thr[ev.t].fg_exe))]
           /\ obs[ev.t].tick_code = thr[ev.t].selected_port

C7_Witness ==
    /\ ev.kind = "tick"
    /\ obs[ev.t].stable
    /\ MatchingSlots(thr[ev.t].fg_exe) = {1, 2}
    /\ obs[ev.t].tick_code = "2s"

\* C8: a tick whose identity no slot matches (NotFound included) computes
\* the fallback code "1s".
C8_Fallback ==
    (/\ ev.kind = "tick"
     /\ obs[ev.t].stable
     /\ MatchingSlots(thr[ev.t].fg_exe) = {})
        => /\ obs[ev.t].tick_code = "1s"
           /\ thr[ev.t].selected_port = None

\* an executable in the foreground that no slot holds, another being held
C8_Witness ==
    /\ ev.kind = "tick"
    /\ obs[ev.t].stable
    /\ Truthy(thr[ev.t].fg_exe)
    /\ MatchingSlots(thr[ev.t].fg_exe) = {}
    /\ \E i \in Slots : is_assigned(profiles[i])
    /\ obs[ev.t].tick_code = "1s"

\* a name and a path that one assign() wrote together
FullyFormed(name, path) == Truthy(path) /\ name = Lower(Basename(path))

\* C9 (as claimed): the two fields is_assigned() reads from a slot belong to
\* one assignment.
C9_NoTornRead == ev.kind = "read" => FullyFormed(ev.name, ev.path)

\* C10: last_sent stays the code of the last completed tick whatever happens
\* to the POSTs, a failing POST changes no watcher thread's state, and a tick
\* that computes the code whose POST failed sends nothing.
C10_FailedPost ==
    /\ \A t \in Threads :
          obs[t].tick_code # None => thr[t].last_sent = obs[t].tick_code
    /\ ev.kind = "postfail" => ~ev.touched
    /\ (ev.kind = "tick" /\ ev.same /\ ev.after_fail) => ~ev.disp

\* the POST of the code failed and the next tick, computing it again, sent
\* nothing
C10_Witness ==
    ev.kind = "tick" /\ ev.same /\ ev.after_fail /\ ~ev.disp

\* C11: the loop never waits for a notification it dispatched: a live
\* watcher thread always has a step of its own to take, whatever POSTs are
\* in flight, so that no step of the loop is enabled by a POST completing
C11_NeverWaits ==
    \A t \in Threads :
        is_alive(t) =>
            \/ ENABLED LoopStep(t, RunPaths)
            \/ thr[t].pc = "except" /\ ENABLED IterationError(t)

\* a tick after the first completed while the POST its thread dispatched at
\* an earlier tick was still in flight
C11_Witness ==
    /\ ev.kind = "tick" /\ ~ev.first /\ ~ev.disp
    /\ \E i \in 1..Len(posts) :
         posts[i].by = ev.t /\ posts[i].port = thr[ev.t].last_sent

\* C12: whenever start_watcher returns, a polling thread is alive whose
\* stop signal is clear, for every interleaving of start and stop calls, a
\* start after a stop whose join timed out included
C12_StartPolls ==
    ev.kind = "start" => is_alive(watcher_thread) /\ ~watcher_stop_event

\* C13: once the stop signal is set, the loop tests it at the start of each
\* iteration and begins no new one, and the thread eventually terminates
C13_StopEffective ==
    /\ [][\A t \in Threads :
            watcher_stop_event /\ thr[t].pc = "test" /\ thr'[t] # thr[t]
                => thr'[t].pc = "done"]_vars
    /\ \A t \in Threads : (watcher_stop_event /\ is_alive(t)) ~> ~is_alive(t)

\* a thread left its loop at the test, the stop signal set while it was in
\* an iteration and stop_watcher still in its join
C13_Witness ==
    /\ ev.kind = "exit" /\ watcher_stop_event /\ gui.pc = "join"
    /\ ~is_alive(ev.t)

\* C14: stop_watcher called when no polling thread is alive is a no-op: it
\* leaves the stop signal, the thread reference, the cache, the profiles
\* and the status display as they were
C14_IdleStopNoOp == ev.kind = "stop" /\ ev.noop => ~ev.touched

\* stop_watcher has returned at line 556, called again after a run that
\* it had stopped
C14_Witness ==
    /\ ev.kind = "stop" /\ ev.noop
    /\ watcher_thread # 0 /\ ~is_alive(watcher_thread)

\* C15 as stated: after the first tick of a run, a tick on which the
\* foreground application is the same as on the preceding tick dispatches
\* nothing, for every interleaving of ticks with assign and clear
C15_OnePerChange ==
    ev.kind = "tick" /\ ~ev.first /\ ev.same_fg => ~ev.disp

\* C15: after the first tick of a run, a tick on which the foreground
\* application is the same as on the preceding tick dispatches nothing,
\* provided no assign or clear wrote to the table from the preceding tick's
\* sampling of the foreground to this tick's comparison
C15_OnePerChangeCalm ==
    ev.kind = "tick" /\ ~ev.first /\ ev.same_fg /\ ev.calm => ~ev.disp

\* a tick found the application of the preceding tick, matched by a slot
\* assigned earlier in the run, and dispatched nothing
C15_Witness ==
    /\ ev.kind = "tick" /\ ~ev.first /\ ev.same_fg /\ ev.calm /\ ~ev.disp
    /\ thr[ev.t].fg_exe = game_exe
    /\ thr[ev.t].last_sent # FALLBACK_PORT
    /\ saved \notin Configs

\* C16: every code dispatched is one of the literal strings 1s, 2s, 3s, 4s,
\* 5s, and a tick's code is the fixed code of the slot it matched (slot 1:
\* 2s, 2: 3s, 3: 4s, 4: 5s) or the fallback 1s when no slot matched
SlotCode == <<"2s", "3s", "4s", "5s">>
C16_FixedCodes ==
    /\ \A k \in 1..Len(hist.sent) : hist.sent[k] \in {"1s", "2s", "3s", "4s", "5s"}
    /\ ev.kind = "tick" =>
          LET m == MatchingSlots(thr[ev.t].fg_exe)
              code == IF m = {} THEN "1s" ELSE SlotCode[Min(m)]
          IN /\ obs[ev.t].tick_code = code
             /\ ev.disp => hist.sent[Len(hist.sent)] = code

\* the run over the table that fills slots 3 and 4 has dispatched the
\* fallback, the codes of both slots and the fallback again
C16_Witness ==
    /\ profiles = LoadProfiles(WideConfig)
    /\ hist.ids = ScenarioIds
    /\ hist.sent = <<"1s", "4s", "5s", "1s">>

\* C17: an iteration that finds no foreground window (a null handle, or
\* GetForegroundWindow raising) clears the cache and has identity NotFound;
\* the next iteration that finds a window, whichever its handle, invokes
\* the resolver
C17_NullClears ==
    ev.kind = "poll" =>
        /\ thr[ev.t].hwnd = NoHwnd =>
              /\ last_hwnd = NoHwnd /\ last_fg_exe = NoName
              /\ thr[ev.t].fg_exe = NoName /\ ~ev.resolved
        /\ (ev.prev_hwnd = NoHwnd /\ thr[ev.t].hwnd # NoHwnd) => ev.resolved

\* the iteration after one without a window resolved its handle afresh and
\* found game.exe
C17_Witness ==
    /\ ev.kind = "poll" /\ ev.prev_hwnd = NoHwnd /\ ev.resolved
    /\ thr[ev.t].hwnd # NoHwnd
    /\ last_hwnd = thr[ev.t].hwnd /\ last_fg_exe = game_exe

\* C18: a miss stores the handle and the resolver's result whether the
\* resolution succeeded or failed: a failure caches NotFound for the handle,
\* and while the same handle stays in the foreground the resolver is not
\* invoked again and the code computed stays the fallback
C18_MissStored ==
    /\ (ev.kind = "poll" /\ ev.resolved) =>
          /\ last_hwnd = thr[ev.t].hwnd
          /\ last_fg_exe = thr[ev.t].fg_exe
          /\ ev.res_failed => last_fg_exe = NoName
    /\ \A t \in Threads :
          (is_alive(t) /\ obs[t].kept_failed) =>
              /\ ev.kind = "poll" /\ ev.t = t => ~ev.resolved
              /\ thr[t].fg_exe = NoName
              /\ ev.kind = "tick" /\ ev.t = t => obs[t].tick_code = FALLBACK_PORT

\* a tick on the handle whose resolution had failed at an earlier iteration
\* computed the fallback, the resolver not invoked again
C18_Witness ==
    /\ ev.kind = "tick" /\ obs[ev.t].kept_failed
    /\ obs[ev.t].tick_code = FALLBACK_PORT
    /\ last_hwnd = thr[ev.t].hwnd /\ last_fg_exe = NoName

\* C19: the watcher loop puts exactly one status event on the queue for
\* each notification it dispatches, carrying the same code, in dispatch
\* order, and puts none at a tick that dispatches nothing
C19_OneStatusPerSend ==
    /\ hist.pub = [k \in 1..Len(hist.sent) |-> StatusLastSent(hist.sent[k])]
    /\ ev.kind = "tick" =>
          ev.pub = IF ev.disp THEN <<StatusLastSent(obs[ev.t].tick_code)>> ELSE <<>>

\* the five ticks of the scenario, one of them dispatching nothing, have put
\* four status events and the label shows the last of them
C19_Witness ==
    /\ hist.ids = ScenarioIds
    /\ hist.sent = <<"1s", "2s", "3s", "1s">>
    /\ Len(hist.pub) = 4
    /\ queue = <<>> /\ status_label = StatusLastSent("1s")

\* C20: every completed assign or clear saves the whole table: when the
\* write succeeds the file holds the in-memory table for slots 1 to 4, and
\* when it fails the handler has returned all the same with the slot as the
\* call set it
C20_SaveAfterEdit ==
    (ev.kind = "save" /\ gui.pc = "idle") =>
        /\ profiles[ev.idx].exe_name = ev.name
        /\ profiles[ev.idx].exe_path = ev.path
        /\ ev.ok =>
              /\ saved.present
              /\ \A i \in 1..4 :
                    /\ saved.profiles[i].exe_name = profiles[i].exe_name
                    /\ saved.profiles[i].exe_path = profiles[i].exe_path

\* an assign has returned with its slot set although its save failed, the
\* file still as an earlier save had written it
C20_Witness ==
    /\ ev.kind = "save" /\ ~ev.ok /\ gui.pc = "idle"
    /\ ev.name = game_exe /\ is_assigned(profiles[ev.idx])
    /\ saved.present /\ saved \notin Configs
    /\ saved.profiles[ev.idx].exe_name # profiles[ev.idx].exe_name

\* C21: clearing a slot that is empty, and assigning to a slot the identity
\* (lowercase base name and path) it holds, each leave the name and the
\* path of all four slots as they were before the call
C21_IdempotentEdit ==
    (ev.kind = "save" /\ ev.same_id) =>
        /\ ev.kept
        /\ gui.pc = "idle" =>
              profiles[ev.idx] = [exe_name |-> ev.name, exe_path |-> ev.path]

\* game.exe assigned to a slot that held game.exe at the same path
C21_Witness ==
    /\ ev.kind = "save" /\ ev.same_id /\ ev.kept
    /\ ev.name = game_exe /\ ev.path = GamePath
    /\ gui.pc = "idle" /\ is_assigned(profiles[ev.idx])

\* C22: an assign or a clear for an index outside 1..4 ends by an exception
\* that reaches the caller, never by a normal return, and leaves the four
\* profiles as they were; the table has the slots 1..4 and no other, always
C22_InvalidSlot ==
    /\ DOMAIN profiles = 1..4
    /\ (ev.kind \in {"save", "noedit"} /\ ev.idx \notin 1..4) =>
           /\ ev.kind = "noedit"
           /\ ev.err = "KeyError"
           /\ ~ev.touched

\* the handler called for slot 5 of a table with a slot assigned
C22_Witness ==
    /\ ev.kind = "noedit" /\ ev.idx = 5 /\ ev.err = "KeyError"
    /\ \E i \in Slots : is_assigned(profiles[i])

\* the file is missing, does not parse, or parses to something else than
\* the record the program saves
Corrupt(file) == ~file.present \/ file.json # "object"

\* C23: the load at startup never fails: over a config file that is
\* missing, unparseable, or parseable but not of the record's shape, the
\* application starts, with the four slots empty and the language "en"
C23_LoadNeverFails ==
    (ev.kind = "load" /\ Corrupt(saved)) =>
        /\ ev.err = "none"
        /\ gui.pc = "idle"
        /\ ev.lang = "en"
        /\ \A i \in Slots : profiles[i] = EmptyProfile

\* C24: at most one thread is in the watcher loop at any time, whatever the
\* order of start_watcher, stop_watcher (its join timing out or not) and
\* _shutdown
C24_OnePoller == Cardinality({t \in Threads : is_alive(t)}) <= 1

\* a second thread polls, the loop of the first having returned
C24_Witness ==
    /\ watcher_thread = 2 /\ is_alive(2) /\ thr[2].pc = "poll"
    /\ thr[1].pc = "done"

\* C25: an assign or a clear made while the watcher runs takes effect on
\* the next tick, a tick that takes the identity from the cache included:
\* a tick during whose match nothing wrote to the table computes the code
\* of the table as it stands for the foreground executable, has that code
\* as the last one sent, and dispatches it when it is not the code of the
\* tick before
C25_EditTakesEffect ==
    (ev.kind = "tick" /\ obs[ev.t].stable) =>
        LET m == MatchingSlots(thr[ev.t].fg_exe)
            code == IF m = {} THEN FALLBACK_PORT ELSE PROFILE_PORTS[Min(m)]
        IN  /\ obs[ev.t].tick_code = code
            /\ thr[ev.t].last_sent = code
            /\ (~ev.first /\ ~ev.same) => ev.disp

\* a tick that took game.exe from the cache, as the tick before had it,
\* dispatched the code of a slot assigned since that tick
C25_Witness ==
    /\ ev.kind = "tick" /\ obs[ev.t].stable /\ ev.hit /\ ev.same_fg
    /\ ~ev.first /\ ~ev.same /\ ev.disp
    /\ thr[ev.t].fg_exe = game_exe
    /\ thr[ev.t].last_sent # FALLBACK_PORT
    /\ gui.pc = "idle"

\* C26: once the stop signal is set, a running watcher thread dispatches at
\* most one more notification, and it never passes the test of its loop
\* again: a later start_watcher does not make it poll once more
C26_StopIsFinal ==
    [][\A t \in Threads :
          /\ obs'[t].stopped => obs'[t].sent_after <= 1
          /\ (obs[t].stopped /\ thr[t].pc = "test") =>
                 thr'[t].pc \in {"test", "done"}]_vars

\* start_watcher was called after a stop whose join timed out, the thread
\* having dispatched the notification of the iteration it was in and being
\* at the test of its loop
C26_Witness ==
    /\ ev.kind = "start" /\ watcher_thread = 1
    /\ obs[1].stopped /\ obs[1].sent_after = 1
    /\ thr[1].pc = "test" /\ watcher_stop_event

=============================================================================
